---- MODULE Spec2Model ----
(***************************************************************************)
(* Model of chi_operator/network.py: the three operator commands           *)
(*   NetworkDeleteCommand.run         (network delete, "teardown")         *)
(*   NetworkSegmentStatusCommand.run  (network segments)                   *)
(*   NetworkPublicIPStatusCommand.run (network ips)                        *)
(* The Neutron and Blazar services are modelled as the backing state the   *)
(* commands read and mutate through the client calls made in the source.   *)
(***************************************************************************)
EXTENDS Integers, Sequences, FiniteSets, TLC

\* ---------------------------------------------------------------- bounds
MaxPorts == 4
MaxSubnets == 1

NetIds == {1, 2}
RouterIds == {1, 2}
PortIds == 1..MaxPorts
SubnetIds == 1..MaxSubnets

NOVA == "compute:nova"
ROUTER_INTERFACE == "network:router_interface"
DHCP == "network:dhcp"

\* An optional argument: <<>> is Python's None, <<v>> a supplied value.
None == <<>>
Some(v) == <<v>>

\* ---------------------------------------------------------------- state
VARIABLES
    \* backing state of the network API
    db_networks, db_subnets, db_ports, db_routers, db_gateways,
    port_info, subnet_net,
    \* NetworkDeleteCommand.run: arguments, locals, position and outcome
    pc, segment, network, neutron_network, ports, router_ports, subnets, i,
    status, error,
    \* history: API calls of the current run, injected API failure, and the
    \* backing state at the start of the current run
    nCalls, log, injected, pre,
    \* NetworkSegmentStatusCommand.run: the networks listed, the rows printed
    seg_networks, seg_rows, seg_pc,
    \* NetworkPublicIPStatusCommand.run: the Blazar floating IPs, the Neutron
    \* ports, the public network and its allocation pools, the rows printed
    fip_list, all_ports, public_net, allocation_pools, ip_rows, ip_error, ip_pc

dbVars == <<db_networks, db_subnets, db_ports, db_routers, db_gateways>>
cfgVars == <<port_info, subnet_net>>
runVars == <<pc, segment, network, neutron_network, ports, router_ports,
             subnets, i, status, error>>
histVars == <<nCalls, log, injected, pre>>
teardownVars == <<dbVars, cfgVars, runVars, histVars>>
segVars == <<seg_networks, seg_rows, seg_pc>>
ipVars == <<fip_list, all_ports, public_net, allocation_pools, ip_rows,
            ip_error, ip_pc>>
reportVars == <<segVars, ipVars>>
vars == <<teardownVars, segVars, ipVars>>

\* ---------------------------------------------------------------- helpers
RECURSIVE SortedSeq(_)
SortedSeq(S) ==
    IF S = {} THEN <<>>
    ELSE LET m == CHOOSE x \in S : \A y \in S : x <= y
         IN <<m>> \o SortedSeq(S \ {m})

Range(s) == {s[k] : k \in 1..Len(s)}

\* The segmentation ID of a network (provider:segmentation_id).
SegOf(n) == 100 + n

\* ------------------------------------------------------- network API reads
\* neutron.list_networks(**{"provider:segmentation_id": seg}).get("networks")
ListNetworks(seg) == SortedSeq({n \in db_networks : SegOf(n) = seg})

\* neutron.list_ports(network_id=nid).get("ports")
ListPortsOfNetwork(nid) ==
    SortedSeq({p \in db_ports : port_info[p].network_id = nid})

\* neutron.list_subnets(network_id=nid).get("subnets")
ListSubnetsOfNetwork(nid) ==
    SortedSeq({s \in db_subnets : subnet_net[s] = nid})

\* neutron.list_ports(device_id=rid, device_owner=owner).get("ports")
ListPortsOfDevice(rid, owner) ==
    SortedSeq({p \in db_ports : /\ port_info[p].device_id = rid
                                /\ port_info[p].device_owner = owner})

\* ------------------------------------------------------- run() fragments
\* any(p.get("device_owner") == "compute:nova" for p in ports)
HasNovaPortsFirstOnly(ps) ==
    ps # <<>> /\ port_info[ps[1]].device_owner = NOVA
HasNovaPorts(ps) ==
    \E k \in 1..Len(ps) : port_info[ps[k]].device_owner = NOVA

\* [p for p in ports if p["device_owner"] == "network:router_interface"]
RouterPortsOf(ps) ==
    SelectSeq(ps, LAMBDA p : port_info[p].device_owner = ROUTER_INTERFACE)

\* if segment is not None: ... elif network is not None: ... else: raise
BySegmentUnlessNetwork(seg, net) == seg # None /\ net = None
BySegment(seg, net) == seg # None
ByNetwork(seg, net) == seg = None /\ net # None

\* An exception leaves run(): nothing catches it, the command ends.
AfterRaiseRetry(at) == at
AfterRaise(at) == "done"

Raise(msg) ==
    /\ pc' = AfterRaise(pc)
    /\ status' = "error"
    /\ error' = msg

\* Position after the router_ports list is built: the detach loop, if any.
AfterListPortsSkipDetach(rps) == "list_subnets"
AfterListPorts(rps) == IF rps = <<>> THEN "list_subnets" ELSE "detach"

\* Position after the subnets are listed: the subnet loop, if any.
AfterListSubnets(ss) == IF ss = <<>> THEN "delete_network" ELSE "delete_subnet"

Snapshot ==
    [networks |-> db_networks, subnets |-> db_subnets, ports |-> db_ports,
     routers |-> db_routers, gateways |-> db_gateways]

\* ---------------------------------------------------------------- Init
PortRecs ==
    {[network_id |-> n, device_owner |-> o, device_id |-> 0] :
        n \in NetIds, o \in {NOVA, DHCP}}
    \cup
    {[network_id |-> n, device_owner |-> ROUTER_INTERFACE, device_id |-> r] :
        n \in NetIds, r \in RouterIds}

\* The report commands before they run, with nothing to report.
ReportsIdle ==
    /\ seg_networks = <<>> /\ seg_rows = <<>> /\ seg_pc = "idle"
    /\ fip_list = <<>> /\ all_ports = <<>> /\ public_net = "ok"
    /\ allocation_pools = <<>> /\ ip_rows = <<>> /\ ip_error = ""
    /\ ip_pc = "idle"

\* Every assignment of ports to networks, owners and routers, up to the
\* naming of ports and routers: ports are numbered network by network (the
\* order inside a network, which is the order of the lists, stays free) and
\* routers are numbered in the order their first interface port appears.
\* Every network, subnet, port and router exists and every router has a
\* gateway.
Init ==
    /\ ReportsIdle
    /\ port_info \in [PortIds -> PortRecs]
    /\ \A p, q \in PortIds :
          p < q => port_info[p].network_id <= port_info[q].network_id
    /\ \A p \in PortIds :
          port_info[p].device_owner = ROUTER_INTERFACE =>
             \A r \in RouterIds :
                r < port_info[p].device_id =>
                   \E q \in PortIds : q < p /\ port_info[q].device_id = r
    /\ subnet_net \in [SubnetIds -> NetIds]
    /\ \A s, t \in SubnetIds : s < t => subnet_net[s] <= subnet_net[t]
    /\ db_networks = NetIds
    /\ db_subnets = SubnetIds
    /\ db_ports = PortIds
    /\ db_routers = RouterIds
    /\ db_gateways = RouterIds
    /\ pc = "idle"
    /\ segment = None /\ network = None /\ neutron_network = None
    /\ ports = <<>> /\ router_ports = <<>> /\ subnets = <<>>
    /\ i = 0
    /\ status = "idle" /\ error = ""
    /\ nCalls = 0 /\ log = <<>> /\ injected = FALSE
    /\ pre = [networks |-> NetIds, subnets |-> SubnetIds, ports |-> PortIds,
              routers |-> RouterIds, gateways |-> RouterIds]

\* ---------------------------------------------------------------- actions
\* cli(segment, network): NetworkDeleteCommand().run(segment=..., network=...)
\* Commands run one after the other; the model follows them up to the first
\* injected API failure.
StartRun(seg, net) ==
    /\ pc \in {"idle", "done"}
    /\ ~injected
    /\ pc' = "resolve"
    /\ segment' = seg /\ network' = net
    /\ neutron_network' = None
    /\ ports' = <<>> /\ router_ports' = <<>> /\ subnets' = <<>>
    /\ i' = 0
    /\ status' = "running" /\ error' = ""
    /\ nCalls' = 0 /\ log' = <<>>
    /\ pre' = Snapshot
    /\ UNCHANGED <<dbVars, cfgVars, reportVars, injected>>

\* lines 32-39: resolve the target network
Resolve ==
    /\ pc = "resolve"
    /\ IF BySegment(segment, network) THEN
          LET networks == ListNetworks(segment[1]) IN
          /\ nCalls' = nCalls + 1
          /\ IF networks = <<>>
             THEN Raise("Could not find network") /\ UNCHANGED neutron_network
             ELSE /\ neutron_network' = Some(networks[1])
                  /\ pc' = "list_ports"
                  /\ UNCHANGED <<status, error>>
       ELSE IF ByNetwork(segment, network) THEN
          /\ nCalls' = nCalls + 1
          /\ IF network[1] \in db_networks
             THEN /\ neutron_network' = network
                  /\ pc' = "list_ports"
                  /\ UNCHANGED <<status, error>>
             ELSE Raise("NotFound") /\ UNCHANGED neutron_network
       ELSE
          /\ Raise("Missing either segment ID or network ID")
          /\ UNCHANGED <<nCalls, neutron_network>>
    /\ UNCHANGED <<dbVars, cfgVars, reportVars, segment, network, ports, router_ports,
                   subnets, i, log, injected, pre>>

\* lines 42-51: list the ports, abort on nova ports, pick the router ports
ListPorts ==
    /\ pc = "list_ports"
    /\ LET ps == ListPortsOfNetwork(neutron_network[1]) IN
       /\ ports' = ps
       /\ nCalls' = nCalls + 1
       /\ IF HasNovaPorts(ps)
          THEN /\ Raise("Network has running instances!")
               /\ UNCHANGED <<router_ports, i>>
          ELSE /\ router_ports' = RouterPortsOf(ps)
               /\ pc' = AfterListPorts(RouterPortsOf(ps))
               /\ i' = 1
               /\ UNCHANGED <<status, error>>
    /\ UNCHANGED <<dbVars, cfgVars, reportVars, segment, network, neutron_network,
                   subnets, log, injected, pre>>

\* lines 54-58: neutron.remove_interface_router(p["device_id"], {port_id})
Detach ==
    /\ pc = "detach"
    /\ LET p == router_ports[i]
           r == port_info[p].device_id IN
       /\ nCalls' = nCalls + 1
       /\ log' = Append(log, <<"remove_interface_router", r, p>>)
       /\ IF r \in db_routers /\ p \in db_ports
          THEN /\ db_ports' = db_ports \ {p}
               /\ IF i < Len(router_ports)
                  THEN i' = i + 1 /\ pc' = "detach"
                  ELSE i' = 1 /\ pc' = "list_subnets"
               /\ UNCHANGED <<status, error>>
          ELSE Raise("NotFound") /\ UNCHANGED <<db_ports, i>>
    /\ UNCHANGED <<db_networks, db_subnets, db_routers, db_gateways, cfgVars, reportVars,
                   segment, network, neutron_network, ports, router_ports,
                   subnets, injected, pre>>

\* line 60: subnets = self._list_for_network(neutron, neutron_network, "subnets")
ListSubnets ==
    /\ pc = "list_subnets"
    /\ subnets' = ListSubnetsOfNetwork(neutron_network[1])
    /\ nCalls' = nCalls + 1
    /\ pc' = AfterListSubnets(subnets')
    /\ i' = 1
    /\ UNCHANGED <<dbVars, cfgVars, reportVars, segment, network, neutron_network, ports,
                   router_ports, status, error, log, injected, pre>>

\* lines 62-64: neutron.delete_subnet(s["id"])
DeleteSubnet ==
    /\ pc = "delete_subnet"
    /\ LET s == subnets[i] IN
       /\ nCalls' = nCalls + 1
       /\ log' = Append(log, <<"delete_subnet", s, 0>>)
       /\ IF s \in db_subnets
          THEN /\ db_subnets' = db_subnets \ {s}
               /\ IF i < Len(subnets)
                  THEN i' = i + 1 /\ pc' = "delete_subnet"
                  ELSE i' = 1 /\ pc' = "delete_network"
               /\ UNCHANGED <<status, error>>
          ELSE Raise("NotFound") /\ UNCHANGED <<db_subnets, i>>
    /\ UNCHANGED <<db_networks, db_ports, db_routers, db_gateways, cfgVars, reportVars,
                   segment, network, neutron_network, ports, router_ports,
                   subnets, injected, pre>>

\* lines 66-67: neutron.delete_network(neutron_network["id"]); the API
\* removes the network together with its DHCP ports.
DeleteNetwork ==
    /\ pc = "delete_network"
    /\ LET n == neutron_network[1] IN
       /\ nCalls' = nCalls + 1
       /\ log' = Append(log, <<"delete_network", n, 0>>)
       /\ IF n \in db_networks
          THEN /\ db_networks' = db_networks \ {n}
               /\ db_ports' = {p \in db_ports :
                                 ~(/\ port_info[p].network_id = n
                                   /\ port_info[p].device_owner = DHCP)}
               /\ i' = 1
               /\ pc' = IF router_ports = <<>> THEN "done" ELSE "gc_list"
               /\ status' = IF router_ports = <<>> THEN "ok" ELSE status
               /\ UNCHANGED error
          ELSE Raise("NotFound") /\ UNCHANGED <<db_networks, db_ports, i>>
    /\ UNCHANGED <<db_subnets, db_routers, db_gateways, cfgVars, reportVars,
                   segment, network, neutron_network, ports, router_ports,
                   subnets, injected, pre>>

\* end of one iteration of the loop of lines 69-79
NextRouterPort ==
    IF i < Len(router_ports)
    THEN i' = i + 1 /\ pc' = "gc_list" /\ UNCHANGED <<status, error>>
    ELSE i' = i /\ pc' = "done" /\ status' = "ok" /\ UNCHANGED error

\* lines 70-75: other_router_ports = neutron.list_ports(device_id, device_owner)
GCList ==
    /\ pc = "gc_list"
    /\ LET p == router_ports[i]
           router_id == port_info[p].device_id
           other_router_ports ==
               ListPortsOfDevice(router_id, port_info[p].device_owner) IN
       /\ nCalls' = nCalls + 1
       /\ log' = Append(log, <<"list_ports", router_id, p>>)
       /\ IF other_router_ports = <<>>
          THEN pc' = "gc_gateway" /\ UNCHANGED <<i, status, error>>
          ELSE NextRouterPort
    /\ UNCHANGED <<dbVars, cfgVars, reportVars, segment, network, neutron_network, ports,
                   router_ports, subnets, injected, pre>>

\* line 77: neutron.remove_gateway_router(router_id)
GCGateway ==
    /\ pc = "gc_gateway"
    /\ LET router_id == port_info[router_ports[i]].device_id IN
       /\ nCalls' = nCalls + 1
       /\ log' = Append(log, <<"remove_gateway_router", router_id, 0>>)
       /\ IF router_id \in db_routers
          THEN /\ db_gateways' = db_gateways \ {router_id}
               /\ pc' = "gc_delete"
               /\ UNCHANGED <<status, error>>
          ELSE Raise("NotFound") /\ UNCHANGED db_gateways
    /\ UNCHANGED <<db_networks, db_subnets, db_ports, db_routers, cfgVars, reportVars,
                   segment, network, neutron_network, ports, router_ports,
                   subnets, i, injected, pre>>

\* line 79: neutron.delete_router(router_id)
GCDelete ==
    /\ pc = "gc_delete"
    /\ LET router_id == port_info[router_ports[i]].device_id IN
       /\ nCalls' = nCalls + 1
       /\ log' = Append(log, <<"delete_router", router_id, 0>>)
       /\ IF router_id \in db_routers
          THEN /\ db_routers' = db_routers \ {router_id}
               /\ NextRouterPort
          ELSE Raise("NotFound") /\ UNCHANGED <<db_routers, i>>
    /\ UNCHANGED <<db_networks, db_subnets, db_ports, db_gateways, cfgVars, reportVars,
                   segment, network, neutron_network, ports, router_ports,
                   subnets, injected, pre>>

\* The call the run is about to make, as it is logged (<<>>: a read that
\* the log does not record).
PendingCall ==
    CASE pc = "detach" ->
            <<<<"remove_interface_router",
                port_info[router_ports[i]].device_id, router_ports[i]>>>>
      [] pc = "delete_subnet" -> <<<<"delete_subnet", subnets[i], 0>>>>
      [] pc = "delete_network" -> <<<<"delete_network", neutron_network[1], 0>>>>
      [] pc = "gc_list" ->
            <<<<"list_ports", port_info[router_ports[i]].device_id,
                router_ports[i]>>>>
      [] pc = "gc_gateway" ->
            <<<<"remove_gateway_router",
                port_info[router_ports[i]].device_id, 0>>>>
      [] pc = "gc_delete" ->
            <<<<"delete_router", port_info[router_ports[i]].device_id, 0>>>>
      [] OTHER -> <<>>

\* Any client call may raise (network failure, authorization, conflict): the
\* call is made, changes nothing, and its exception leaves run().
ApiFailure ==
    /\ pc \in {"resolve", "list_ports", "detach", "list_subnets",
               "delete_subnet", "delete_network", "gc_list", "gc_gateway",
               "gc_delete"}
    /\ pc = "resolve" => (segment # None \/ network # None)
    /\ ~injected
    /\ injected' = TRUE
    /\ nCalls' = nCalls + 1
    /\ log' = log \o PendingCall
    /\ Raise("ExternalAPIError")
    /\ UNCHANGED <<dbVars, cfgVars, reportVars, segment, network, neutron_network, ports,
                   router_ports, subnets, i, pre>>

SegArgs == {None} \cup {Some(SegOf(n)) : n \in NetIds}
NetArgs == {None} \cup {Some(n) : n \in NetIds}

Next ==
    \/ \E seg \in SegArgs, net \in NetArgs : StartRun(seg, net)
    \/ Resolve
    \/ ListPorts
    \/ Detach
    \/ ListSubnets
    \/ DeleteSubnet
    \/ DeleteNetwork
    \/ GCList
    \/ GCGateway
    \/ GCDelete
    \/ ApiFailure

Spec == Init /\ [][Next]_vars

\* ================================================================ teardown
\* The network the current run resolved, and facts about it.
Target == neutron_network[1]

IsInterfacePort(p) == port_info[p].device_owner = ROUTER_INTERFACE

NovaOn(n, portset) ==
    \E p \in portset :
        port_info[p].network_id = n /\ port_info[p].device_owner = NOVA

\* The networks on which router r has router-interface ports in portset.
InterfaceNets(r, portset) ==
    {port_info[p].network_id :
        p \in {q \in portset : IsInterfacePort(q) /\ port_info[q].device_id = r}}

Logged(op) == \E k \in 1..Len(log) : log[k][1] = op

Invocations(op, r) ==
    Cardinality({k \in 1..Len(log) : log[k][1] = op /\ log[k][2] = r})

Resolved == pc \notin {"idle", "resolve"} /\ neutron_network # None

\* C1: a run on a network that has a compute:nova port never mutates the
\* backing state (it equals the state at the start of the run, and no
\* mutating call or router check is ever made), and it ends with an error.
C1_NovaPortsAbortWithoutMutation ==
    (Resolved /\ NovaOn(Target, pre.ports)) =>
        /\ Snapshot = pre
        /\ log = <<>>
        /\ pc = "done" => status = "error"
        /\ (pc = "done" /\ ~injected) => error = "Network has running instances!"

C1_Witness ==
    /\ pc = "done" /\ Resolved
    /\ NovaOn(Target, pre.ports)
    /\ error = "Network has running instances!"
    /\ \E p \in pre.ports : port_info[p].network_id = Target /\ IsInterfacePort(p)

\* C2 (as claimed): a run on a network without compute:nova ports, with no
\* API failure, ends without error, and the network, its subnets and every
\* router whose router-interface ports were all on that network are gone.
C2_TeardownCompletes ==
    (pc = "done" /\ Resolved /\ ~injected /\ ~NovaOn(Target, pre.ports)) =>
        /\ status = "ok"
        /\ Target \notin db_networks
        /\ \A s \in db_subnets : subnet_net[s] # Target
        /\ \A r \in pre.routers :
              InterfaceNets(r, pre.ports) = {Target} => r \notin db_routers

C4_SharedRouterCollected ==
    \A r \in RouterIds :
        LET nets == InterfaceNets(r, PortIds) IN
        (Cardinality(nets) = 2 /\ ~injected) =>
            /\ (r \notin db_routers \/ r \notin db_gateways) =>
                  nets \cap db_networks = {}
            /\ (pc \in {"idle", "done"} /\ nets \cap db_networks = {}) =>
                  r \notin db_routers

\* C8: once a call of a run has failed, the run makes no further call and
\* changes nothing; the failing step itself leaves the backing state as the
\* completed steps made it. The only step after a failure is a new run.
C8_FailStop ==
    [][/\ status = "error" =>
             /\ pc' = "resolve" /\ status' = "running" /\ nCalls' = 0
             /\ dbVars' = dbVars
       /\ (status # "error" /\ status' = "error") =>
             /\ dbVars' = dbVars
             /\ nCalls' <= nCalls + 1
             /\ pc' = "done"]_vars

C8_Witness ==
    /\ pc = "done" /\ status = "error" /\ error = "ExternalAPIError"
    /\ Logged("remove_interface_router") /\ Logged("delete_network")
    /\ db_ports # pre.ports
    /\ Target \in db_networks

\* The phase of run() a logged call belongs to.
Rank(op) ==
    CASE op = "remove_interface_router" -> 1
      [] op = "delete_subnet" -> 2
      [] op = "delete_network" -> 3
      [] OTHER -> 4

\* C9: the calls of a run come in the order detach, delete subnets, delete
\* network, router checks; when a subnet deletion is called no
\* router-interface port of the network is left, when the network deletion
\* is called no subnet of it is left, the router checks come after the
\* network is gone, and delete_router directly follows the removal of that
\* router's gateway.
C9_MutationOrder ==
    /\ \A j, k \in 1..Len(log) : j < k => Rank(log[j][1]) <= Rank(log[k][1])
    /\ Logged("delete_subnet") =>
          /\ \A p \in db_ports :
                port_info[p].network_id = Target => ~IsInterfacePort(p)
          /\ \A p \in Range(router_ports) :
                \E k \in 1..Len(log) :
                    log[k] = <<"remove_interface_router",
                               port_info[p].device_id, p>>
    /\ Logged("delete_network") =>
          /\ \A s \in db_subnets : subnet_net[s] # Target
          /\ \A p \in db_ports :
                port_info[p].network_id = Target => ~IsInterfacePort(p)
    /\ (Logged("list_ports") \/ Logged("remove_gateway_router")
          \/ Logged("delete_router")) => Target \notin db_networks
    /\ \A k \in 1..Len(log) :
          log[k][1] = "delete_router" =>
              /\ k > 1
              /\ log[k-1] = <<"remove_gateway_router", log[k][2], 0>>
              /\ log[k][2] \notin db_gateways

C9_Witness ==
    /\ pc = "done" /\ status = "ok"
    /\ Logged("remove_interface_router") /\ Logged("delete_subnet")
    /\ Logged("delete_router")
    /\ Len(router_ports) >= 2

\* C10 (as claimed): in one run remove_gateway_router and delete_router are
\* each invoked at most once per router.
C10_OncePerRouter ==
    \A r \in RouterIds :
        /\ Invocations("remove_gateway_router", r) <= 1
        /\ Invocations("delete_router", r) <= 1

\* ================================================================ segments
MaxSegNets == 3
MaxSegId == 2

\* provider:segmentation_id of a listed network: None, or an ID from 0.
SegValues == {None} \cup {Some(k) : k \in 0..MaxSegId}

\* The lists neutron.list_networks() may return; "name" tells the networks
\* of one list apart.
NetworkLists ==
    UNION {{[k \in 1..n |-> [name |-> k, segmentation_id |-> f[k]]] :
               f \in [1..n -> SegValues]} : n \in 0..MaxSegNets}

\* The teardown command idle on a fixed backing state.
TeardownIdle ==
    /\ port_info = [p \in PortIds |->
                      [network_id |-> 1, device_owner |-> DHCP, device_id |-> 0]]
    /\ subnet_net = [s \in SubnetIds |-> 1]
    /\ db_networks = NetIds /\ db_subnets = SubnetIds /\ db_ports = PortIds
    /\ db_routers = RouterIds /\ db_gateways = RouterIds
    /\ pc = "idle"
    /\ segment = None /\ network = None /\ neutron_network = None
    /\ ports = <<>> /\ router_ports = <<>> /\ subnets = <<>>
    /\ i = 0
    /\ status = "idle" /\ error = ""
    /\ nCalls = 0 /\ log = <<>> /\ injected = FALSE
    /\ pre = [networks |-> NetIds, subnets |-> SubnetIds, ports |-> PortIds,
              routers |-> RouterIds, gateways |-> RouterIds]

\* def sort_key(x): return x.get("provider:segmentation_id") or -1
\* (Python's "or" takes -1 for every falsy ID: None, and also 0)
sort_key(x) ==
    IF x.segmentation_id = None \/ x.segmentation_id[1] = 0
    THEN -1
    ELSE x.segmentation_id[1]

\* sorted(networks, key=sort_key): a stable sort, built by inserting each
\* element behind the elements whose key is not larger.
RECURSIVE InsertByKey(_, _)
InsertByKey(sorted, x) ==
    IF sorted = <<>> THEN <<x>>
    ELSE IF sort_key(sorted[Len(sorted)]) <= sort_key(x)
         THEN Append(sorted, x)
         ELSE Append(InsertByKey(SubSeq(sorted, 1, Len(sorted) - 1), x),
                     sorted[Len(sorted)])

RECURSIVE SortedByKey(_)
SortedByKey(list) ==
    IF list = <<>> THEN <<>>
    ELSE InsertByKey(SortedByKey(SubSeq(list, 1, Len(list) - 1)),
                     list[Len(list)])

\* str(n["provider:segmentation_id"])
StrSegmentationId(v) == IF v = None THEN "None" ELSE ToString(v[1])

\* lines 109-127: the header row, then one row per network of the sorted list
SegmentRows(networks) ==
    <<[name |-> "name", segmentation_id |-> "segmentation_id"]>> \o
    [k \in 1..Len(networks) |->
        [name |-> SortedByKey(networks)[k].name,
         segmentation_id |->
             StrSegmentationId(SortedByKey(networks)[k].segmentation_id)]]

SegInit ==
    /\ TeardownIdle
    /\ fip_list = <<>> /\ all_ports = <<>> /\ public_net = "ok"
    /\ allocation_pools = <<>> /\ ip_rows = <<>> /\ ip_error = ""
    /\ ip_pc = "idle"
    /\ seg_networks \in NetworkLists
    /\ seg_rows = <<>>
    /\ seg_pc = "start"

\* NetworkSegmentStatusCommand.run; the padding of the printed columns
\* (lines 129-132) does not reorder or change the rows.
SegRun ==
    /\ seg_pc = "start"
    /\ seg_rows' = SegmentRows(seg_networks)
    /\ seg_pc' = "done"
    /\ UNCHANGED <<teardownVars, ipVars, seg_networks>>

SegNext == SegRun

SegSpec == SegInit /\ [][SegNext]_vars

\* The network a data row was made from.
RowNetwork(row) == seg_networks[row.name]

\* C7 (as claimed): one row per network, networks without a segmentation ID
\* before all networks with one, and the networks with one in ascending
\* order of the ID, whatever the ID (0 included).
C7_SegmentRowsOrdered ==
    seg_pc = "done" =>
        LET data == Tail(seg_rows) IN
        /\ Len(data) = Len(seg_networks)
        /\ \A n \in 1..Len(seg_networks) :
              Cardinality({k \in 1..Len(data) : data[k].name = n}) = 1
        /\ \A j, k \in 1..Len(data) :
              j < k =>
                 LET a == RowNetwork(data[j]).segmentation_id
                     b == RowNetwork(data[k]).segmentation_id IN
                 /\ b = None => a = None
                 /\ (a # None /\ b # None) => a[1] <= b[1]

\* ================================================================ public IPs
\* ipaddress works on 32-bit addresses; the model keeps its arithmetic on
\* addresses of AddrBits bits, written as two dotted fields.
AddrBits == 2
MaxPools == 1

ALL_ONES == 2^AddrBits - 1
Addrs == 0..ALL_ONES
FieldSize == 2^(AddrBits \div 2)

FLOATINGIP == "network:floatingip"
ROUTER_GATEWAY == "network:router_gateway"

\* str(IPv4Address) and IPv4Address(str): the dotted text of an address.
StrIPv4(a) == <<a \div FieldSize, a % FieldSize>>
IPv4Address(str) == str[1] * FieldSize + str[2]

\* ipaddress._count_righthand_zero_bits(number, bits)
RECURSIVE TrailingZeros(_)
TrailingZeros(number) ==
    IF number % 2 = 1 THEN 0 ELSE 1 + TrailingZeros(number \div 2)

count_righthand_zero_bits(number, bits) ==
    IF number = 0 THEN bits
    ELSE IF TrailingZeros(number) < bits THEN TrailingZeros(number) ELSE bits

\* int.bit_length()
RECURSIVE bit_length(_)
bit_length(n) == IF n = 0 THEN 0 ELSE 1 + bit_length(n \div 2)

\* ipaddress.summarize_address_range(first, last): the networks
\* <<network address, prefix bits left free>> that cover first..last.
RECURSIVE summarize_address_range(_, _)
summarize_address_range(first, last) ==
    IF first > last THEN <<>>
    ELSE LET z == count_righthand_zero_bits(first, AddrBits)
             b == bit_length(last - first + 1) - 1
             nbits == IF z < b THEN z ELSE b
             next == first + 2^nbits
         IN <<<<first, nbits>>>> \o
            (IF next - 1 = ALL_ONES THEN <<>>
             ELSE summarize_address_range(next, last))

\* list(ipaddress.IPv4Network(net)): every address of the network
NetworkAddresses(net) == [k \in 1..(2^net[2]) |-> net[1] + k - 1]

RECURSIVE Flatten(_)
Flatten(seqs) ==
    IF seqs = <<>> THEN <<>> ELSE Head(seqs) \o Flatten(Tail(seqs))

\* lines 196-199, for one pool
PoolAddresses(pool) ==
    LET nets == summarize_address_range(IPv4Address(pool.start),
                                        IPv4Address(pool.end))
    IN Flatten([k \in 1..Len(nets) |-> NetworkAddresses(nets[k])])

\* lines 169-172
ReservableIps(fips) == [k \in 1..Len(fips) |-> IPv4Address(fips[k])]

\* lines 194-199: the reserved addresses, then the addresses of each pool
AllAddresses(fips, pools) ==
    ReservableIps(fips) \o
    Flatten([k \in 1..Len(pools) |-> PoolAddresses(pools[k])])

\* sorted(all_addresses): a stable sort of the addresses
RECURSIVE InsertAddr(_, _)
InsertAddr(sorted, a) ==
    IF sorted = <<>> THEN <<a>>
    ELSE IF sorted[Len(sorted)] <= a
         THEN Append(sorted, a)
         ELSE Append(InsertAddr(SubSeq(sorted, 1, Len(sorted) - 1), a),
                     sorted[Len(sorted)])

RECURSIVE SortedAddrs(_)
SortedAddrs(list) ==
    IF list = <<>> THEN <<>>
    ELSE InsertAddr(SortedAddrs(SubSeq(list, 1, Len(list) - 1)),
                    list[Len(list)])

\* lines 178-184
AnyPort(p) == TRUE
IsPublicPort(p) == p.device_owner \in {FLOATINGIP, ROUTER_GATEWAY}

PublicPorts(ps) == SelectSeq(ps, IsPublicPort)

\* lines 185-188: the dict comprehension keeps, for each address, the last
\* public port whose first fixed IP it is; <<>> when there is none
\* (ports_by_ip.get).
PortsByIp(ps, ipstr) ==
    LET at == SelectSeq(PublicPorts(ps), LAMBDA p : p.ip_address = ipstr)
    IN IF at = <<>> THEN <<>> ELSE <<at[Len(at)]>>

\* neutron.show_router(router_id).get("router").get("project_id")
RouterProject(router_id) ==
    IF router_id = 1 THEN "router-1-project" ELSE "router-2-project"

\* str(public_ip in reservable_ips)
Reservable(public_ip, fips) ==
    IF \E k \in 1..Len(fips) : ReservableIps(fips)[k] = public_ip
    THEN "True" ELSE "False"

\* lines 215-229
GatewayProject(port) == RouterProject(port.device_id)

AllocationType(port) ==
    IF port = <<>> THEN "unallocated"
    ELSE IF port[1].device_owner = ROUTER_GATEWAY THEN "gateway"
    ELSE "floating_ip"

ProjectId(port) ==
    IF port = <<>> THEN "none"
    ELSE IF port[1].device_owner = ROUTER_GATEWAY THEN GatewayProject(port[1])
    ELSE port[1].project_id

\* lines 211-236: the row of one address
Row(public_ip, fips, ps) ==
    [public_ip |-> StrIPv4(public_ip),
     allocation_type |-> AllocationType(PortsByIp(ps, StrIPv4(public_ip))),
     reservable |-> Reservable(public_ip, fips),
     project_id |-> ProjectId(PortsByIp(ps, StrIPv4(public_ip)))]

Rows(fips, ps, pools) ==
    LET ips == SortedAddrs(AllAddresses(fips, pools))
    IN [k \in 1..Len(ips) |-> Row(ips[k], fips, ps)]

\* ---------------------------------------------------------------- inputs
\* blazar.floatingip.list(): each reserved address once, by address.
FipLists ==
    {[k \in 1..Cardinality(S) |-> StrIPv4(SortedSeq(S)[k])] :
        S \in SUBSET Addrs}

\* A subnet's allocation pool: start <= end.
Pools == {[start |-> StrIPv4(a), end |-> StrIPv4(b)] :
             a \in Addrs, b \in Addrs}

ValidPools == {pl \in Pools : IPv4Address(pl.start) <= IPv4Address(pl.end)}

PoolLists ==
    UNION {[1..n -> ValidPools] : n \in 0..MaxPools}

\* neutron.list_ports(): the port in slot k belongs to project k.
PortChoices ==
    {[device_owner |-> o, ip_address |-> StrIPv4(a), device_id |-> 0] :
        o \in {FLOATINGIP, NOVA}, a \in Addrs}
    \cup
    {[device_owner |-> ROUTER_GATEWAY, ip_address |-> StrIPv4(a),
      device_id |-> r] : a \in Addrs, r \in RouterIds}

PortSlotProject(k) == IF k = 1 THEN "project-1" ELSE "project-2"

PortLists ==
    UNION {{[k \in 1..n |->
                [device_owner |-> f[k].device_owner,
                 ip_address |-> f[k].ip_address,
                 device_id |-> f[k].device_id,
                 project_id |-> PortSlotProject(k)]] :
               f \in [1..n -> PortChoices]} : n \in {0, 1, 2}}

IPInit ==
    /\ TeardownIdle
    /\ seg_networks = <<>> /\ seg_rows = <<>> /\ seg_pc = "idle"
    /\ fip_list \in FipLists
    /\ all_ports \in PortLists
    /\ public_net \in {"ok", "missing", "no_subnets"}
    /\ allocation_pools \in PoolLists
    /\ public_net # "ok" => allocation_pools = <<>>
    /\ \A j, k \in 1..Len(allocation_pools) :
          j < k => IPv4Address(allocation_pools[j].start)
                      <= IPv4Address(allocation_pools[k].start)
    /\ ip_rows = <<>>
    /\ ip_error = ""
    /\ ip_pc = "start"

\* NetworkPublicIPStatusCommand.run, with _public_allocation_pools
IPRun ==
    /\ ip_pc = "start"
    /\ ip_pc' = "done"
    /\ IF public_net = "missing"
       THEN ip_error' = "Could not find public network" /\ ip_rows' = <<>>
       ELSE IF public_net = "no_subnets"
       THEN /\ ip_error' = "No subnets defined on public network"
            /\ ip_rows' = <<>>
       ELSE /\ ip_rows' = Rows(fip_list, all_ports, allocation_pools)
            /\ ip_error' = ""
    /\ UNCHANGED <<teardownVars, segVars, fip_list, all_ports, public_net,
                   allocation_pools>>

IPNext == IPRun

IPSpec == IPInit /\ [][IPNext]_vars

\* ---------------------------------------------------------------- claims
Reported == ip_pc = "done" /\ public_net = "ok"

ReservedSet == {IPv4Address(fip_list[k]) : k \in 1..Len(fip_list)}

PoolSet ==
    UNION {IPv4Address(allocation_pools[k].start) ..
           IPv4Address(allocation_pools[k].end) :
              k \in 1..Len(allocation_pools)}

\* C5 (as claimed): the rows are the addresses of the reserved set and of
\* the pools, each address once, in ascending order.
C5_RowsAreDeduplicatedUnion ==
    Reported =>
        /\ {IPv4Address(ip_rows[k].public_ip) : k \in 1..Len(ip_rows)}
              = ReservedSet \cup PoolSet
        /\ \A j, k \in 1..Len(ip_rows) :
              j < k => IPv4Address(ip_rows[j].public_ip)
                          < IPv4Address(ip_rows[k].public_ip)

\* The floating-ip and router-gateway ports whose address is that of a row.
PublicSlotsAt(ipstr) ==
    {k \in 1..Len(all_ports) :
        /\ all_ports[k].ip_address = ipstr
        /\ all_ports[k].device_owner \in {FLOATINGIP, ROUTER_GATEWAY}}

LastSlot(S) == CHOOSE k \in S : \A j \in S : j <= k

\* C6: in every row, reservable tells whether the address is reserved, and
\* nothing else; the allocation is "unallocated"/"none" when no floating-ip
\* or router-gateway port has the address, and otherwise that of the port
\* indexed there: "gateway" with the router's project, or "floating_ip"
\* with the port's project.
C6_RowClassification ==
    Reported =>
        \A k \in 1..Len(ip_rows) :
            LET row == ip_rows[k]
                slots == PublicSlotsAt(row.public_ip) IN
            /\ row.reservable = "True" <=>
                  IPv4Address(row.public_ip) \in ReservedSet
            /\ row.reservable \in {"True", "False"}
            /\ slots = {} =>
                  row.allocation_type = "unallocated" /\ row.project_id = "none"
            /\ slots # {} =>
                  LET port == all_ports[LastSlot(slots)] IN
                  IF port.device_owner = ROUTER_GATEWAY
                  THEN /\ row.allocation_type = "gateway"
                       /\ row.project_id = RouterProject(port.device_id)
                  ELSE /\ row.allocation_type = "floating_ip"
                       /\ row.project_id = port.project_id

C6_Witness ==
    /\ Reported
    /\ \E k \in 1..Len(ip_rows) :
          /\ ip_rows[k].allocation_type = "gateway"
          /\ ip_rows[k].reservable = "True"
          /\ ip_rows[k].project_id = "router-2-project"
    /\ \E k \in 1..Len(ip_rows) :
          /\ ip_rows[k].allocation_type = "unallocated"
          /\ ip_rows[k].reservable = "False"
          /\ \E j \in 1..Len(all_ports) :
                /\ all_ports[j].ip_address = ip_rows[k].public_ip
                /\ all_ports[j].device_owner = NOVA

====
